---------------------------- MODULE Spec2Model ----------------------------
(***************************************************************************)
(* Model of Sniffler.py: a Telegram bot that tracks Solana wallets in a    *)
(* SQLite table and, from a repeating job, polls every enabled wallet's    *)
(* balance and notifies the owner when it differs from the stored one.     *)
(*                                                                         *)
(* One asyncio event loop runs everything, so a step of the model is the   *)
(* code between two awaits.  The awaits that matter are the RPC call       *)
(* (rpc_get_balance_lamports), bot.send_message and the semaphore.         *)
(* Updates are handled one at a time (the Application is built without     *)
(* concurrent_updates), the job runs beside them.                          *)
(*                                                                         *)
(* Fault model.  An RPC call and a send_message may fail at any time.      *)
(* The SQLite statements of the job raise only when dbFaulty holds: Spec   *)
(* starts with dbFaulty = FALSE, SpecDbFault with dbFaulty = TRUE.         *)
(***************************************************************************)
EXTENDS Integers, Sequences, FiniteSets, TLC

\* ------------------------------------------------------------------ bounds
NumUsers   == 2      \* Telegram users
NumAddrs   == 2      \* distinct wallet addresses
NumNames   == 1      \* distinct display names
MaxBal     == 1      \* on-chain balances are 0..MaxBal lamports
MaxWallets == 2      \* rows ever inserted (AUTOINCREMENT ids 1..MaxWallets)
MaxTicks   == 2      \* firings of the repeating job

Users    == 1..NumUsers
Addrs    == 1..NumAddrs
Names    == 1..NumNames
Balances == 0..MaxBal
Ids      == 1..MaxWallets

\* ------------------------------------------------------- program constants
\* Python None / SQL NULL (last_lamports INTEGER, bot_data["last_check_iso"]).
None == -1
\* asyncio.Semaphore(8)
SemPermits == 8
\* APScheduler's job default, which run_repeating(...) does not override:
\* a firing is skipped while this many instances of the job are running.
max_instances == 1

VARIABLES
    wallets,        \* table wallets: id -> row
    seq,            \* sqlite_sequence of wallets: largest id ever inserted
    ledger,         \* the balances the node behind SOLANA_RPC_URL may report
    now,            \* firings of the job trigger so far (the wall clock)
    last_check_iso, \* bot_data["last_check_iso"]
    instances,      \* running instances of check_balances_job
    rows,           \* check_balances_job: rows, as id -> loaded row
    task,           \* check_balances_job: the process_one tasks, by wallet id
    sem,            \* check_balances_job: sem._value
    ret,            \* what the last finished check_balances_job returned
    conv,           \* the update handler in flight (add_wallet_address, its ok)
    touched,        \* ids a handler wrote or deleted since rows was loaded
    dbFaulty        \* SQLite statements may raise

vars == <<wallets, seq, ledger, now, last_check_iso, instances,
          rows, task, sem, ret, conv, touched, dbFaulty>>

scanVars == <<instances, rows, task, sem, ret, last_check_iso>>

\* ------------------------------------------------------------ pure helpers
EmptyFn == [x \in {} |-> 0]

Abs(x) == IF x < 0 THEN -x ELSE x

\* lamports / 1_000_000_000, as the "%.9f" rendering shows it:
\* <<whole SOL, nine decimals>>.
lamports_to_sol(lamports) == <<lamports \div 1000000000, lamports % 1000000000>>

\* SELECT id, name, address, enabled, last_lamports FROM wallets
\*   WHERE user_id = ?   (the ids; ORDER BY id DESC is applied by the caller)
db_get_wallets(W, user_id) == {w \in DOMAIN W : W[w].user_id = user_id}

\* SELECT id, user_id, name, address, last_lamports FROM wallets WHERE enabled = 1
db_get_wallets_all_users(W) ==
    [w \in DOMAIN W |->
        [user_id |-> W[w].user_id, name |-> W[w].name,
         address |-> W[w].address, last_lamports |-> W[w].last_lamports]]
db_get_enabled_wallets_all_users(W) ==
    [w \in {x \in DOMAIN W : W[x].enabled = 1} |->
        [user_id |-> W[w].user_id, name |-> W[w].name,
         address |-> W[w].address, last_lamports |-> W[w].last_lamports]]

\* UPDATE wallets SET last_lamports = ? WHERE id = ?
db_update_last_lamportsAdd(W, wallet_id, lamports) ==
    [w \in DOMAIN W |->
        IF w = wallet_id
           THEN [W[w] EXCEPT !.last_lamports = IF @ = None THEN lamports
                                                           ELSE @ + lamports]
           ELSE W[w]]
db_update_last_lamportsUpsert(W, wallet_id, lamports) ==
    [w \in DOMAIN W \cup {wallet_id} |->
        IF w = wallet_id
           THEN [user_id |-> 0, name |-> 0, address |-> 0, enabled |-> 1,
                 last_lamports |-> lamports]
           ELSE W[w]]
db_update_last_lamports(W, wallet_id, lamports) ==
    [w \in DOMAIN W |->
        IF w = wallet_id THEN [W[w] EXCEPT !.last_lamports = lamports] ELSE W[w]]

\* Outcomes of one SQLite statement of the job: TRUE = executed, FALSE = raised.
DbOutcomes == IF dbFaulty THEN {TRUE, FALSE} ELSE {TRUE}

\* Outcomes of one rpc_get_balance_lamports(session, address) call: the
\* balance the node reports for the address at that moment (any value of
\* ledger: the address is paid into and out of at will), or None for a raise
\* (timeout, connection error, malformed body, "error" in the payload).
RpcOutcomes(address) == ledger \cup {None}


\* ---------------------------------------------------------------- startup
\* on_startup: db_init() on an empty data.db, bot_data["last_check_iso"] = None,
\* run_repeating(check_balances_job, ...); no job instance is running yet.
InitBot ==
    /\ wallets = EmptyFn
    /\ seq = 0
    /\ ledger = Balances
    /\ now = 0
    /\ last_check_iso = None
    /\ instances = 0
    /\ rows = EmptyFn
    /\ task = EmptyFn
    /\ sem = SemPermits
    /\ ret = [kind |-> "nothing"]
    /\ conv = [pc |-> "idle", user_id |-> 0, addr |-> 0, ok |-> FALSE]
    /\ touched = {}

Init == InitBot /\ dbFaulty = FALSE

\* ------------------------------------------------------ check_balances_job
\* A process_one coroutine that gather() has wrapped in a task and that has
\* not run yet.
NewTask ==
    [pc |-> "wait", fetched |-> "none", current |-> None, fetches |-> 0,
     updates |-> << >>, sends |-> << >>, delivered |-> "none", raised |-> FALSE]

\* app.bot_data["last_check_iso"] = datetime.now()...: the first statement of
\* the job, whatever rows are loaded afterwards.
StampedAtNonEmpty(t, loaded) == IF loaded = EmptyFn THEN last_check_iso ELSE t
StampedAt(t, loaded) == t

\* The scheduler runs a due job only below max_instances running instances.
JobMayStartAlways == TRUE
JobMayStartUnlessRaised == instances < max_instances /\ ret.kind # "raised"
JobMayStart == instances < max_instances

\* The body of check_balances_job up to its first await, run at time t.
check_balances_job(t) ==
    \E ok \in DbOutcomes :
        LET loaded == IF ok THEN db_get_enabled_wallets_all_users(wallets)
                            ELSE EmptyFn
        IN  /\ last_check_iso' = StampedAt(t, loaded)
            /\ rows' = loaded
            /\ task' = [w \in DOMAIN loaded |-> NewTask]
            /\ sem' = SemPermits
            /\ touched' = {}
            /\ IF ~ok THEN                       \* the SELECT raised
                    /\ ret' = [kind |-> "raised"]
                    /\ instances' = instances
               ELSE IF loaded = EmptyFn THEN     \* if not rows: return
                    /\ ret' = [kind |-> "None"]
                    /\ instances' = instances
               ELSE /\ ret' = [kind |-> "running"]
                    /\ instances' = instances + 1

\* The interval trigger of run_repeating fires.
Tick ==
    /\ now < MaxTicks
    /\ now' = now + 1
    /\ IF JobMayStart
          THEN check_balances_job(now + 1)
          ELSE UNCHANGED <<scanVars, touched>>     \* this run is skipped
    /\ UNCHANGED <<wallets, seq, ledger, conv, dbFaulty>>

\* asyncio.Semaphore.locked()
sem_lockedNever == FALSE
sem_locked == sem = 0

\* process_one: "async with sem:" entered, rpc_get_balance_lamports awaited.
Acquire(w) ==
    /\ instances > 0
    /\ w \in DOMAIN task
    /\ task[w].pc = "wait"
    /\ ~sem_locked
    /\ sem' = sem - 1
    /\ task' = [task EXCEPT ![w] = [@ EXCEPT !.pc = "fetch",
                                             !.fetches = @ + 1]]
    /\ UNCHANGED <<wallets, seq, ledger, now, last_check_iso,
                   instances, rows, ret, conv, touched, dbFaulty>>


\* process_one, line by line after the fetch returned.
first_observation(last_lamports) == last_lamports = None

balance_changedUp(current, last_lamports) == current > last_lamports
balance_changed(current, last_lamports) == current # last_lamports

deltaSwapped(current, last_lamports) == last_lamports - current
delta(current, last_lamports) == current - last_lamports

direction(d) == IF d > 0 THEN "increased" ELSE "decreased"
sign(d) == IF d > 0 THEN "+" ELSE "-"

\* What send_message is called with: chat_id and the fields of msg.
Message(row, current) ==
    LET d == delta(current, row.last_lamports)
    IN  [chat_id   |-> row.user_id,
         name      |-> row.name,
         direction |-> direction(d),
         sign      |-> sign(d),
         change    |-> lamports_to_sol(Abs(d)),
         balance   |-> lamports_to_sol(current)]

\* "except Exception: logger.warning(...); return" around the fetch.
\* The task afterwards, and the table as the handler leaves it.
fetch_failedNoReturn(t) == [t EXCEPT !.pc = "hung", !.fetched = "fail"]
fetch_failed(t) == [t EXCEPT !.pc = "done", !.fetched = "fail"]

\* The tasks of the scan after w's fetch raised: gather() gave every
\* coroutine its own task, and the except clause is inside process_one.
tasks_after_failureAbort(T, w) ==
    [x \in DOMAIN T |-> IF x = w THEN fetch_failed(T[x])
                                  ELSE [T[x] EXCEPT !.pc = "done"]]
tasks_after_failure(T, w) == [T EXCEPT ![w] = fetch_failed(@)]

fetch_failedClear(W, w) == db_update_last_lamports(W, w, None)
fetch_failed_table(W, w) == W

\* "except Exception: logger.warning(...)" around send_message: the table
\* as the handler leaves it.
send_failedRollback(W, w) == db_update_last_lamports(W, w, rows[w].last_lamports)
send_failed(W, w) == W

\* db_update_last_lamports raised (conn.execute or conn.commit; conn.close()
\* in its finally drops what was not committed): the table afterwards.
write_failedPartial(W, w, lamports) == db_update_last_lamports(W, w, lamports)
write_failed(W, w, lamports) == W

\* Leaving "async with sem:".
sem_releaseNever(s) == s
sem_release(s) == s + 1

\* rpc_get_balance_lamports returns or raises; process_one runs on to its
\* next await or to its end.
FetchDone(w) ==
    /\ instances > 0
    /\ w \in DOMAIN task
    /\ task[w].pc = "fetch"
    /\ \E r \in RpcOutcomes(rows[w].address), ok \in DbOutcomes :
        LET last == rows[w].last_lamports
            got  == [task[w] EXCEPT !.fetched = "ok", !.current = r]
        IN  IF r = None THEN
                /\ task' = tasks_after_failure(task, w)
                /\ sem' = sem_release(sem)
                /\ wallets' = fetch_failed_table(wallets, w)
            ELSE IF first_observation(last) \/ balance_changed(r, last) THEN
                IF ~ok THEN          \* db_update_last_lamports raised
                    /\ task' = [task EXCEPT ![w] =
                                  [got EXCEPT !.pc = "done", !.raised = TRUE]]
                    /\ sem' = sem_release(sem)
                    /\ wallets' = write_failed(wallets, w, r)
                ELSE IF first_observation(last) THEN
                    /\ wallets' = db_update_last_lamports(wallets, w, r)
                    /\ task' = [task EXCEPT ![w] =
                                  [got EXCEPT !.pc = "done",
                                              !.updates = Append(@, r)]]
                    /\ sem' = sem_release(sem)
                ELSE
                    /\ wallets' = db_update_last_lamports(wallets, w, r)
                    /\ task' = [task EXCEPT ![w] =
                                  [got EXCEPT !.pc = "send",
                                              !.updates = Append(@, r),
                                              !.sends = Append(@, Message(rows[w], r))]]
                    /\ sem' = sem
            ELSE
                /\ task' = [task EXCEPT ![w] = [got EXCEPT !.pc = "done"]]
                /\ sem' = sem_release(sem)
                /\ wallets' = wallets
    /\ UNCHANGED <<seq, ledger, now, last_check_iso, instances,
                   rows, ret, conv, touched, dbFaulty>>

\* app.bot.send_message returns or raises; process_one ends.
SendDone(w) ==
    /\ instances > 0
    /\ w \in DOMAIN task
    /\ task[w].pc = "send"
    /\ \E ok \in BOOLEAN :
        /\ task' = [task EXCEPT ![w] =
                      [@ EXCEPT !.pc = "done",
                                !.delivered = IF ok THEN "ok" ELSE "fail"]]
        /\ wallets' = IF ok THEN wallets ELSE send_failed(wallets, w)
    /\ sem' = sem_release(sem)
    /\ UNCHANGED <<seq, ledger, now, last_check_iso, instances,
                   rows, ret, conv, touched, dbFaulty>>

\* gather(..., return_exceptions=True) has every result; the job returns.
ScanFinish ==
    /\ instances > 0
    /\ \A w \in DOMAIN task : task[w].pc = "done"
    /\ instances' = instances - 1
    /\ ret' = [kind |-> "None"]
    /\ rows' = EmptyFn                 \* the locals of the call are gone
    /\ task' = EmptyFn
    /\ sem' = SemPermits
    /\ touched' = {}
    /\ UNCHANGED <<wallets, seq, ledger, now, last_check_iso, conv, dbFaulty>>


\* --------------------------------------------------------- update handlers
Idle == [pc |-> "idle", user_id |-> 0, addr |-> 0, ok |-> FALSE]

\* INSERT INTO wallets (user_id, name, address, enabled, last_lamports)
\*   VALUES (?, ?, ?, 1, NULL), refused by UNIQUE(user_id, address).
db_add_wallet_okAlways(W, user_id, address) == TRUE
db_add_wallet_ok(W, user_id, address) ==
    ~\E w \in DOMAIN W : W[w].user_id = user_id /\ W[w].address = address

db_add_wallet(W, id, user_id, name, address) ==
    [w \in DOMAIN W \cup {id} |->
        IF w = id THEN [user_id |-> user_id, name |-> name, address |-> address,
                        enabled |-> 1, last_lamports |-> None]
                  ELSE W[w]]

\* SELECT enabled ... WHERE id = ? AND user_id = ?
ownedAny(W, user_id, wallet_id) == wallet_id \in DOMAIN W
owned(W, user_id, wallet_id) ==
    wallet_id \in DOMAIN W /\ W[wallet_id].user_id = user_id

\* UPDATE wallets SET enabled = ? WHERE id = ? AND user_id = ?
db_toggle_walletReset(W, user_id, wallet_id) ==
    [W EXCEPT ![wallet_id] = [@ EXCEPT !.enabled = IF @ = 1 THEN 0 ELSE 1,
                                       !.last_lamports = None]]
db_toggle_wallet(W, user_id, wallet_id) ==
    [W EXCEPT ![wallet_id].enabled = IF @ = 1 THEN 0 ELSE 1]

\* DELETE FROM wallets WHERE id = ? AND user_id = ?
db_delete_wallet(W, user_id, wallet_id) ==
    [w \in DOMAIN W \ {wallet_id} |-> W[w]]

\* add_wallet_address up to "await rpc_get_balance_lamports": the address is
\* well-formed, name is user_data["new_wallet_name"].
AddWallet(u, n, a) ==
    /\ conv.pc = "idle"
    /\ IF db_add_wallet_ok(wallets, u, a)
          THEN /\ seq < MaxWallets
               /\ wallets' = db_add_wallet(wallets, seq + 1, u, n, a)
               /\ seq' = seq + 1
          ELSE /\ UNCHANGED <<wallets, seq>>     \* sqlite3.IntegrityError
    /\ conv' = [pc |-> "fetch", user_id |-> u, addr |-> a,
                ok |-> db_add_wallet_ok(wallets, u, a)]   \* ok, msg = db_add_wallet(...)
    /\ UNCHANGED <<ledger, now, scanVars, touched, dbFaulty>>

\* The row the loop over db_get_wallets(user) stops at: ids descending,
\* first one whose address is addr (the empty set when there is none).
MatchingWallet(W, user_id, addr) ==
    LET m == {w \in db_get_wallets(W, user_id) : W[w].address = addr}
    IN  {w \in m : \A x \in m : x <= w}

\* add_wallet_address from the return of the fetch to its end.
AddWalletFetchDone ==
    /\ conv.pc = "fetch"
    /\ \E r \in RpcOutcomes(conv.addr) :
        LET m == MatchingWallet(wallets, conv.user_id, conv.addr)
        IN  IF r = None \/ m = {}
               THEN UNCHANGED <<wallets, touched>>
               ELSE \E w \in m :
                        /\ wallets' = db_update_last_lamports(wallets, w, r)
                        /\ touched' = touched \cup ({w} \cap DOMAIN rows)
    /\ conv' = Idle
    /\ UNCHANGED <<seq, ledger, now, scanVars, dbFaulty>>

\* What menu_click answers to "toggle:<wallet_id>" and "delete:<wallet_id>":
\* db_toggle_wallet returns None / db_delete_wallet returns False when no
\* row has that id and that user_id.
toggle_reply(W, user_id, wallet_id) ==
    IF ~owned(W, user_id, wallet_id) THEN "not found"
    ELSE IF W[wallet_id].enabled = 1 THEN "disabled" ELSE "enabled"
delete_reply(W, user_id, wallet_id) ==
    IF owned(W, user_id, wallet_id) THEN "removed" ELSE "not found"

\* menu_click, data = "toggle:<wallet_id>"
Toggle(u, wallet_id) ==
    /\ conv.pc = "idle"
    /\ IF owned(wallets, u, wallet_id)
          THEN wallets' = db_toggle_wallet(wallets, u, wallet_id)
          ELSE wallets' = wallets                 \* "Couldn't find that wallet."
    /\ UNCHANGED <<seq, ledger, now, scanVars, conv, touched,
                   dbFaulty>>

\* menu_click, data = "delete:<wallet_id>"
Delete(u, wallet_id) ==
    /\ conv.pc = "idle"
    /\ IF owned(wallets, u, wallet_id)
          THEN /\ wallets' = db_delete_wallet(wallets, u, wallet_id)
               /\ touched' = touched \cup ({wallet_id} \cap DOMAIN rows)
          ELSE /\ UNCHANGED <<wallets, touched>>
    /\ UNCHANGED <<seq, ledger, now, scanVars, conv, dbFaulty>>

\* menu_click, data = "wallets" / "wpage:<n>" / "alerts" / "refresh": the
\* handlers that only read db_get_wallets and render it.
ShowWallets(u) ==
    /\ conv.pc = "idle"
    /\ UNCHANGED vars

\* ------------------------------------------------------------ the program
Next ==
    \/ Tick
    \/ \E w \in DOMAIN task : Acquire(w)
    \/ \E w \in DOMAIN task : FetchDone(w)
    \/ \E w \in DOMAIN task : SendDone(w)
    \/ ScanFinish
    \/ \E u \in Users, n \in Names, a \in Addrs : AddWallet(u, n, a)
    \/ AddWalletFetchDone
    \/ \E u \in Users, w \in Ids : Toggle(u, w)
    \/ \E u \in Users, w \in Ids : Delete(u, w)
    \/ \E u \in Users : ShowWallets(u)

Spec == Init /\ [][Next]_vars

\* The same program on a data.db whose statements may raise inside the job
\* (disk full, file locked by another process).
InitDbFault == InitBot /\ dbFaulty = TRUE
SpecDbFault == InitDbFault /\ [][Next]_vars


\* ------------------------------------------- more wallets than permits
\* The bot started on a data.db that already holds SemPermits + 1 enabled
\* wallets of user 1, one of them with a stored balance the node no longer
\* reports; nobody talks to the bot while the job runs.
GateWallets == SemPermits + 1

InitGate ==
    /\ wallets = [w \in 1..GateWallets |->
                    [user_id |-> 1, name |-> 1, address |-> w, enabled |-> 1,
                     last_lamports |-> IF w = 1 THEN 1 ELSE 0]]
    /\ seq = GateWallets
    /\ ledger = {0}
    /\ now = 0
    /\ last_check_iso = None
    /\ instances = 0
    /\ rows = EmptyFn
    /\ task = EmptyFn
    /\ sem = SemPermits
    /\ ret = [kind |-> "nothing"]
    /\ conv = Idle
    /\ touched = {}
    /\ dbFaulty = FALSE

NextGate ==
    \/ Tick
    \/ \E w \in DOMAIN task : Acquire(w)
    \/ \E w \in DOMAIN task : FetchDone(w)
    \/ \E w \in DOMAIN task : SendDone(w)
    \/ ScanFinish

SpecGate == InitGate /\ [][NextGate]_vars


\* ----------------------------------------- the job on a failing data.db
\* The bot started on a data.db that holds MaxWallets + 1 enabled wallets
\* (one never observed, the others with a stored balance) and whose
\* statements may raise; nobody talks to the bot while the job runs.
FaultWallets == MaxWallets + 1

InitScanFault ==
    /\ wallets = [w \in 1..FaultWallets |->
                    [user_id |-> IF w = 1 THEN 1 ELSE NumUsers,
                     name |-> 1, address |-> w, enabled |-> 1,
                     last_lamports |-> IF w = 1 THEN None
                                       ELSE IF w = 2 THEN 0 ELSE MaxBal]]
    /\ seq = FaultWallets
    /\ ledger = Balances
    /\ now = 0
    /\ last_check_iso = None
    /\ instances = 0
    /\ rows = EmptyFn
    /\ task = EmptyFn
    /\ sem = SemPermits
    /\ ret = [kind |-> "nothing"]
    /\ conv = Idle
    /\ touched = {}
    /\ dbFaulty = TRUE

SpecScanFault == InitScanFault /\ [][NextGate]_vars

\* The same, with the scheduling of the event loop: a task that can run is
\* run, an awaited rpc_get_balance_lamports returns or raises (at the latest
\* by ClientTimeout(total=12)), an awaited send_message returns or raises,
\* and gather() returns once every task is over.  The trigger is under no
\* obligation to fire.
ScanStep ==
    \/ \E w \in DOMAIN task : Acquire(w)
    \/ \E w \in DOMAIN task : FetchDone(w)
    \/ \E w \in DOMAIN task : SendDone(w)
    \/ ScanFinish

SpecScanLive == InitScanFault /\ [][NextGate]_vars /\ WF_vars(ScanStep)

\* ------------------------------------------- db_update_last_lamports alone
\* The tables db_add_wallet can have built (every row with last_lamports
\* NULL, enabled or not, no two rows with the same user and address), and
\* db_update_last_lamports called on them with any id and any balance, the
\* ids of rows that do not exist included.
FreshTables ==
    UNION {[S -> [user_id : Users, name : Names, address : Addrs,
                  enabled : {0, 1}, last_lamports : {None}]] : S \in SUBSET Ids}

InitUpdate ==
    /\ \E W \in FreshTables :
        /\ \A w \in DOMAIN W : \A x \in DOMAIN W \ {w} :
              ~(W[w].user_id = W[x].user_id /\ W[w].address = W[x].address)
        /\ wallets = W
    /\ seq = MaxWallets
    /\ ledger = Balances
    /\ now = 0
    /\ last_check_iso = None
    /\ instances = 0
    /\ rows = EmptyFn
    /\ task = EmptyFn
    /\ sem = SemPermits
    /\ ret = [kind |-> "nothing"]
    /\ conv = Idle
    /\ touched = {}
    /\ dbFaulty = FALSE

UpdateLast(wallet_id, lamports) ==
    /\ wallets' = db_update_last_lamports(wallets, wallet_id, lamports)
    /\ UNCHANGED <<seq, ledger, now, scanVars, conv, touched, dbFaulty>>

NextUpdate == \E wallet_id \in Ids, lamports \in Balances :
                  UpdateLast(wallet_id, lamports)

SpecUpdate == InitUpdate /\ [][NextUpdate]_vars


\* ------------------------------------------- one user's toggles and deletes
\* Any table of wallets with alerts on (as added; balances stored or not),
\* and the callbacks "toggle:<id>" and "delete:<id>" sent by one user,
\* Requester, with any id: those of other users' rows and of no row included
\* (callback data is whatever the client sends).
Requester == 1

OwnerTables ==
    UNION {[S -> [user_id : Users, name : Names, address : Addrs,
                  enabled : {1}, last_lamports : Balances \cup {None}]] :
           S \in SUBSET Ids}

InitOwner ==
    /\ \E W \in OwnerTables :
        /\ \A w \in DOMAIN W : \A x \in DOMAIN W \ {w} :
              ~(W[w].user_id = W[x].user_id /\ W[w].address = W[x].address)
        /\ wallets = W
    /\ seq = MaxWallets
    /\ ledger = Balances
    /\ now = 0
    /\ last_check_iso = None
    /\ instances = 0
    /\ rows = EmptyFn
    /\ task = EmptyFn
    /\ sem = SemPermits
    /\ ret = [kind |-> "nothing"]
    /\ conv = Idle
    /\ touched = {}
    /\ dbFaulty = FALSE

NextOwner ==
    \/ \E w \in Ids : Toggle(Requester, w)
    \/ \E w \in Ids : Delete(Requester, w)

SpecOwner == InitOwner /\ [][NextOwner]_vars


\* ===================================================================
\* Properties
\* ===================================================================
Prev(w) == rows[w].last_lamports
Cur(w)  == task[w].current

\* A step in which rpc_get_balance_lamports returns to task w / raises in it.
FetchReturns(w) ==
    /\ w \in DOMAIN task /\ w \in DOMAIN task'
    /\ task[w].pc = "fetch" /\ task'[w].fetched = "ok"
FetchRaises(w) ==
    /\ w \in DOMAIN task /\ w \in DOMAIN task'
    /\ task[w].pc = "fetch" /\ task'[w].fetched = "fail"
\* A step in which send_message raises in task w.
SendRaises(w) ==
    /\ w \in DOMAIN task /\ w \in DOMAIN task'
    /\ task[w].pc = "send" /\ task'[w].delivered = "fail"

\* No handler wrote or deleted row w since the scan loaded it.
Untouched(w) == w \in DOMAIN wallets /\ w \notin touched

\* C1. In a scan, for every account whose fetch succeeded, with previous the
\* balance loaded for it and current the balance fetched: send_message is
\* called (once) iff previous is present and differs from current; when
\* previous is absent, current is written to the row and nothing is sent;
\* when previous equals current, nothing is sent and nothing is written.
C1_State ==
    \A w \in DOMAIN task :
        task[w].fetched = "ok" =>
            /\ Len(task[w].sends) <= 1
            /\ Len(task[w].sends) = 1 <=> (Prev(w) # None /\ Prev(w) # Cur(w))
            /\ Prev(w) = None =>
                   task[w].updates = <<Cur(w)>> /\ task[w].sends = << >>
            /\ Prev(w) = Cur(w) =>
                   task[w].updates = << >> /\ task[w].sends = << >>
C1_Step ==
    \A w \in DOMAIN task :
        FetchReturns(w) =>
            /\ (Prev(w) = None /\ w \in DOMAIN wallets) =>
                   wallets'[w].last_lamports = task'[w].current
            /\ Prev(w) = task'[w].current => wallets' = wallets
C2_State ==
    \A a, b \in DOMAIN task :
        ( /\ a # b
          /\ task[a].fetched = "fail"
          /\ task[b].fetched = "ok" /\ Prev(b) # None /\ Cur(b) # Prev(b) ) =>
            /\ task[b].updates = <<Cur(b)>>
            /\ Len(task[b].sends) = 1
            /\ task[a].updates = << >>
            /\ task[a].sends = << >>
C2_Step ==
    \A a \in DOMAIN task :
        FetchRaises(a) =>
            /\ wallets' = wallets
            /\ \A b \in DOMAIN task \ {a} : task'[b] = task[b]
Fetching == {w \in DOMAIN task : task[w].pc = "fetch"}
Holding  == {w \in DOMAIN task : task[w].pc \in {"fetch", "send"}}

C3_ConcurrencyBound ==
    /\ Cardinality(Fetching) <= SemPermits
    /\ sem = SemPermits - Cardinality(Holding)
    /\ sem >= 0

\* Reached: SemPermits fetches are outstanding and a further account waits.
C3_Reached ==
    /\ Cardinality(Fetching) = SemPermits
    /\ \E w \in DOMAIN task : task[w].pc = "wait"

\* C4. At most one check_balances_job is in progress at any time; a firing
\* of the trigger while one is in progress starts nothing and leaves nothing
\* behind (no scan starts later on its account): a scan starts only in the
\* step of a firing, and only when no scan is in progress.
ScanStarts == last_check_iso' # last_check_iso \/ instances' > instances

C4_State == instances <= 1
C4_Step ==
    /\ instances > 0 => ~ScanStarts
    /\ ScanStarts => now' = now + 1 /\ last_check_iso' = now'
    /\ (now' # now /\ instances > 0) => UNCHANGED <<scanVars, wallets>>
ScanComplete == instances > 0 /\ \A w \in DOMAIN task : task[w].pc = "done"

\* C5. For every account whose fetch raised in a scan: the fetch was called
\* once (no retry), the task is over, the scan issued no balance update and
\* no notification for it, the raising step leaves the table as it was, and
\* the stored balance is the one loaded at the start of the scan.  The scan
\* is not the only writer of the table: the last conjunct is about the rows
\* that no handler (the balance write of add_wallet_address, a delete) wrote
\* or deleted while the scan ran.
C5_State ==
    \A w \in DOMAIN task :
        task[w].fetched = "fail" =>
            /\ task[w].pc = "done"
            /\ task[w].fetches = 1
            /\ task[w].updates = << >>
            /\ task[w].sends = << >>
            /\ Untouched(w) => wallets[w].last_lamports = Prev(w)
C5_Step == \A w \in DOMAIN task : FetchRaises(w) => wallets' = wallets
C5_FailureKeepsState == [] C5_State /\ [][C5_Step]_vars

\* Reached: the fetch of an account with a stored balance raised, and the
\* scan is over for every account.
C5_Reached ==
    /\ ScanComplete
    /\ \E w \in DOMAIN task :
        /\ task[w].fetched = "fail"
        /\ Prev(w) # None
        /\ Untouched(w) /\ wallets[w].last_lamports = Prev(w)

\* C6. For every account with a detected change the new balance is written
\* before send_message is called; if send_message raises, the written
\* balance is not rolled back (the raising step changes no row, and the row
\* holds the fetched balance, for the rows that no handler wrote or deleted
\* while the scan ran), send_message is not called again, no other task of
\* the scan is changed by the failure, and the scan is never stuck: it is
\* complete or a task can run.
CanRun(w) ==
    \/ task[w].pc \in {"fetch", "send"}
    \/ task[w].pc = "wait" /\ ~sem_locked

C6_State ==
    /\ \A w \in DOMAIN task :
        /\ task[w].sends # << >> => task[w].updates = <<Cur(w)>>
        /\ task[w].delivered = "fail" =>
            /\ task[w].pc = "done"
            /\ Len(task[w].sends) = 1
            /\ Untouched(w) => wallets[w].last_lamports = Cur(w)
    /\ instances > 0 =>
        \/ \A w \in DOMAIN task : task[w].pc = "done"
        \/ \E w \in DOMAIN task : CanRun(w)
C6_Step ==
    \A w \in DOMAIN task :
        SendRaises(w) =>
            /\ wallets' = wallets
            /\ \A x \in DOMAIN task \ {w} : task'[x] = task[x]
C6_StateBeforeDelivery == [] C6_State /\ [][C6_Step]_vars

\* Reached: the delivery for one account raised, its row holds the fetched
\* balance, and another account of the scan ran to a delivered notification.
C6_Reached ==
    \E w, x \in DOMAIN task :
        /\ w # x
        /\ task[w].delivered = "fail"
        /\ Untouched(w) /\ wallets[w].last_lamports = Cur(w)
        /\ Cur(w) # Prev(w)
        /\ task[x].pc = "done" /\ task[x].delivered = "ok"

\* C7. For every account with loaded balance p and fetched balance c # p
\* the scan writes c to the row, and calls send_message exactly once, with
\* chat_id the owner of the account, with direction "increased" and sign
\* "+" and change c - p when c > p, and with direction "decreased" and sign
\* "-" and change p - c when c < p (delta = c - p is negative).
C7_State ==
    \A w \in DOMAIN task :
        (task[w].fetched = "ok" /\ Prev(w) # None /\ Cur(w) # Prev(w)) =>
            /\ task[w].updates = <<Cur(w)>>
            /\ Len(task[w].sends) = 1
            /\ LET m == task[w].sends[1]
               IN  /\ m.chat_id = rows[w].user_id
                   /\ w \in DOMAIN wallets => m.chat_id = wallets[w].user_id
                   /\ m.balance = lamports_to_sol(Cur(w))
                   /\ Cur(w) > Prev(w) =>
                        /\ m.direction = "increased" /\ m.sign = "+"
                        /\ m.change = lamports_to_sol(Cur(w) - Prev(w))
                   /\ Cur(w) < Prev(w) =>
                        /\ m.direction = "decreased" /\ m.sign = "-"
                        /\ m.change = lamports_to_sol(Prev(w) - Cur(w))
C7_Step ==
    \A w \in DOMAIN task :
        ( /\ FetchReturns(w)
          /\ Prev(w) # None /\ task'[w].current # Prev(w)
          /\ w \in DOMAIN wallets ) =>
            wallets'[w].last_lamports = task'[w].current
ScanStats(R, T) ==
    [kind            |-> "ScanStats",
     accountsScanned |-> Cardinality(DOMAIN R),
     changesDetected |-> Cardinality({w \in DOMAIN T :
                            /\ T[w].fetched = "ok"
                            /\ R[w].last_lamports # None
                            /\ T[w].current # R[w].last_lamports}),
     fetchFailures   |-> Cardinality({w \in DOMAIN T : T[w].fetched = "fail"})]

C8_Step ==
    /\ instances' < instances => ret' = ScanStats(rows, task)
    /\ (ScanStarts /\ instances' = instances) => ret' = ScanStats(rows', task')
C8_ReturnsStats == [][C8_Step]_vars

\* C9. Every invocation of the job first overwrites last_check_iso with the
\* current time; an invocation that finds no enabled wallet still does so
\* and returns in the same step without a task (no fetch, no send) and
\* without touching the table; last_check_iso is None exactly as long as
\* the job was never invoked.
JobInvoked == now' = now + 1 /\ instances = 0

C9_State ==
    /\ last_check_iso = None <=> ret.kind = "nothing"
    /\ instances > 0 => last_check_iso # None
C9_Step ==
    JobInvoked =>
        /\ last_check_iso' = now'
        /\ db_get_enabled_wallets_all_users(wallets) = EmptyFn =>
            /\ instances' = 0
            /\ ret'.kind = "None"
            /\ task' = EmptyFn
            /\ wallets' = wallets
C9_Heartbeat == [] C9_State /\ [][C9_Step]_vars

\* Reached: the second invocation found no enabled wallet (one is stored,
\* switched off) and has returned; the timestamp is that of this invocation.
C9_Reached ==
    /\ now = 2 /\ last_check_iso = 2
    /\ instances = 0 /\ ret.kind = "None"
    /\ wallets # EmptyFn
    /\ \A w \in DOMAIN wallets : wallets[w].enabled = 0

\* A step changes the stored balance of row w.
BalanceWritten(w) ==
    /\ w \in DOMAIN wallets /\ w \in DOMAIN wallets'
    /\ wallets'[w].last_lamports # wallets[w].last_lamports
CreatedAbsent ==
    \A w \in DOMAIN wallets' \ DOMAIN wallets : wallets'[w].last_lamports = None

\* C10 as stated: a row is created with last_lamports NULL, and
\* last_lamports is changed only by the scan's update after a successful
\* fetch; registration, toggle, delete and listing never write it.
\* (Refuted: add_wallet_address stores the balance it fetched.)
C10_Step_AsStated ==
    /\ CreatedAbsent
    /\ \A w \in DOMAIN wallets : BalanceWritten(w) => FetchReturns(w)
C10_OnlyScanWrites == [][C10_Step_AsStated]_vars

\* C10, amended.  A row is created with last_lamports NULL, and
\* last_lamports is changed only (a) by the scan's update after a successful
\* fetch for that row, to the fetched balance, or (b) by add_wallet_address
\* after its own successful fetch, for the row of that user with that
\* address (the row just inserted, or the existing row when the INSERT was
\* refused); toggle, delete and listing never write it.
RegistrationWrites(w) ==
    /\ conv.pc = "fetch" /\ conv'.pc = "idle"
    /\ wallets[w].user_id = conv.user_id
    /\ wallets[w].address = conv.addr
    /\ wallets'[w].last_lamports \in ledger

C10_Step ==
    /\ CreatedAbsent
    /\ \A w \in DOMAIN wallets :
        BalanceWritten(w) =>
            \/ FetchReturns(w) /\ wallets'[w].last_lamports = task'[w].current
            \/ RegistrationWrites(w)
    /\ \A w \in DOMAIN wallets : \A x \in DOMAIN wallets \ {w} :
        ~(BalanceWritten(w) /\ BalanceWritten(x))
C10_ScanOrRegistrationWrites == [][C10_Step]_vars

\* Reached: a row holds a balance although the job was never invoked: the
\* registration stored it.
C10_Reached ==
    /\ ret.kind = "nothing"
    /\ \E w \in DOMAIN wallets : wallets[w].last_lamports # None

\* C11. In every reachable state no two rows of wallets have the same
\* (user_id, address); an add_wallet_address for a pair that is stored
\* already inserts nothing (the table keeps its rows and sqlite_sequence its
\* value), an insert adds exactly one row; two rows of different users may
\* hold the same address.
C11_State ==
    \A w \in DOMAIN wallets : \A x \in DOMAIN wallets \ {w} :
        ~( /\ wallets[w].user_id = wallets[x].user_id
           /\ wallets[w].address = wallets[x].address )
\* A step in which add_wallet_address calls db_add_wallet.
AddCalled == conv.pc = "idle" /\ conv'.pc = "fetch"
C11_Step ==
    AddCalled =>
        IF \E w \in DOMAIN wallets : /\ wallets[w].user_id = conv'.user_id
                                     /\ wallets[w].address = conv'.addr
           THEN wallets' = wallets /\ seq' = seq
           ELSE /\ Cardinality(DOMAIN wallets') = Cardinality(DOMAIN wallets) + 1
                /\ \A w \in DOMAIN wallets : wallets'[w] = wallets[w]
C11_Unique == [] C11_State /\ [][C11_Step]_vars

\* Reached: two users track the same address, and one of them has just
\* asked to add it again: the INSERT was refused, the table holds two rows.
C11_Reached ==
    /\ conv.pc = "fetch"
    /\ Cardinality(DOMAIN wallets) = 2
    /\ \E w \in DOMAIN wallets : \E x \in DOMAIN wallets \ {w} :
        /\ wallets[w].address = wallets[x].address
        /\ wallets[w].user_id # wallets[x].user_id
        /\ wallets[w].user_id = conv.user_id /\ wallets[w].address = conv.addr
        /\ wallets[w].last_lamports # None


\* C13. For every table, every id (of a stored row or not) and every
\* balance v: db_update_last_lamports with v applied twice gives the table
\* that applying it once gives; one application keeps the set of rows,
\* changes no row other than that of the id, and in that row changes no
\* column other than last_lamports, which becomes v.
OtherColumns(row) ==
    [user_id |-> row.user_id, name |-> row.name,
     address |-> row.address, enabled |-> row.enabled]

C13_Idempotent ==
    \A wallet_id \in Ids, v \in Balances :
        LET once  == db_update_last_lamports(wallets, wallet_id, v)
            twice == db_update_last_lamports(once, wallet_id, v)
        IN  /\ twice = once
            /\ DOMAIN once = DOMAIN wallets
            /\ \A w \in DOMAIN wallets :
                /\ w # wallet_id => once[w] = wallets[w]
                /\ OtherColumns(once[w]) = OtherColumns(wallets[w])
                /\ w = wallet_id => once[w].last_lamports = v

\* Reached: two rows, one of them switched off, each updated to a
\* different balance (no fresh table holds a balance).
C13_Reached ==
    \E w \in DOMAIN wallets : \E x \in DOMAIN wallets \ {w} :
        /\ wallets[w].last_lamports = 0 /\ wallets[w].enabled = 0
        /\ wallets[x].last_lamports = MaxBal


\* C14. A task takes a permit of the semaphore before its fetch and gives it
\* back in the step in which process_one ends, however it ends (fetch
\* raised, fetch returned and nothing to do, db_update_last_lamports
\* raised, send_message returned or raised): the free permits are always
\* SemPermits minus the tasks between acquire and end, all SemPermits are
\* free when the scan has every result, and every scan, the first and the
\* later ones, starts with SemPermits free permits.
InGate(t) == t.pc \in {"fetch", "send"}

C14_State ==
    /\ sem = SemPermits - Cardinality(Holding)
    /\ ScanComplete => sem = SemPermits
    /\ instances = 0 => sem = SemPermits
C14_Step ==
    /\ \A w \in DOMAIN task :
        w \in DOMAIN task' =>
            /\ (task[w].pc = "wait" /\ task'[w].pc = "fetch") =>
                   sem > 0 /\ sem' = sem - 1
            /\ (InGate(task[w]) /\ task'[w].pc = "done") => sem' = sem + 1
            /\ task'[w].pc = "fetch" => task[w].pc \in {"wait", "fetch"}
    /\ ScanStarts => sem' = SemPermits
C14_NoPermitLeak == [] C14_State /\ [][C14_Step]_vars

\* Reached: the second scan has every result; in it one fetch raised, one
\* db_update_last_lamports raised and one send_message raised, and all
\* permits are free.
C14_Reached ==
    /\ now = 2 /\ ScanComplete /\ sem = SemPermits
    /\ \E a, b, c \in DOMAIN task :
        /\ task[a].fetched = "fail"
        /\ task[b].raised
        /\ task[c].delivered = "fail"


\* C15 as stated: the stored balance of an account is the balance returned
\* by its most recent successful fetch: when a fetch of the scan returns for
\* a stored account, the row holds the returned balance at the end of that
\* step (written by it, or there already), so that the next scan compares
\* with it and re-notifies nothing.
C15_Step ==
    \A w \in DOMAIN task :
        (FetchReturns(w) /\ w \in DOMAIN wallets) =>
            wallets'[w].last_lamports = task'[w].current
C15_ReplaceByLatestFetch == [][C15_Step]_vars

\* What does hold: the same for the rows that no handler wrote since the
\* scan loaded them.  (The scan compares the fetched balance with the
\* balance it loaded, not with the one stored at that moment.)
ReplaceWhenUndisturbed ==
    [][\A w \in DOMAIN task :
          (FetchReturns(w) /\ Untouched(w)) =>
              wallets'[w].last_lamports = task'[w].current]_vars


\* C16. When the row of an account of the scan was deleted after the scan
\* loaded it, the step in which its fetch returns (and in which the scan
\* calls db_update_last_lamports for it, on a first observation or a
\* change) leaves the table as it is: the row is not recreated, nothing is
\* raised in the task, no other task is changed; and every other account
\* of the scan whose balance changed gets its one update and its one
\* notification.
Deleted(w) == w \in DOMAIN rows /\ w \notin DOMAIN wallets

C16_State ==
    \A a \in DOMAIN task :
        Deleted(a) =>
            /\ ~task[a].raised
            /\ \A b \in DOMAIN task \ {a} :
                (task[b].fetched = "ok" /\ Prev(b) # None /\ Cur(b) # Prev(b)) =>
                    task[b].updates = <<Cur(b)>> /\ Len(task[b].sends) = 1
C16_Step ==
    \A a \in DOMAIN task :
        (FetchReturns(a) /\ Deleted(a)) =>
            /\ wallets' = wallets
            /\ ~task'[a].raised
            /\ (Prev(a) = None \/ Prev(a) # task'[a].current) =>
                   task'[a].updates = <<task'[a].current>>
            /\ \A b \in DOMAIN task \ {a} : task'[b] = task[b]
C16_DeletedIsNoOp == [] C16_State /\ [][C16_Step]_vars

\* Reached: the row of an account seen for the first time was deleted while
\* its fetch was in flight, the scan has issued the update for it, and
\* another account of the scan was updated and notified.
C16_Reached ==
    \E a \in DOMAIN task : \E b \in DOMAIN task \ {a} :
        /\ Deleted(a) /\ Prev(a) = None
        /\ task[a].pc = "done" /\ task[a].updates = <<Cur(a)>>
        /\ seq = 2 /\ Cardinality(DOMAIN wallets) = 1
        /\ task[b].delivered = "ok"
        /\ wallets[b].last_lamports = Cur(b)


\* C17. When the SELECT of the enabled wallets raises, the invocation of the
\* job ends in that step: it creates no task (so no fetch, no balance
\* write, no notification), leaves the table as it is and leaves no running
\* instance behind; the trigger keeps firing, and the next firing invokes
\* the job again, which loads the enabled wallets unless its SELECT raises
\* too.
LoadRaised == ret.kind = "raised"

C17_State ==
    LoadRaised => /\ instances = 0
                  /\ task = EmptyFn /\ rows = EmptyFn
                  /\ JobMayStart
                  /\ now < MaxTicks => ENABLED Tick
C17_Step ==
    /\ (JobInvoked /\ ret'.kind = "raised") =>
          /\ task' = EmptyFn /\ rows' = EmptyFn
          /\ wallets' = wallets
          /\ instances' = 0
    /\ (LoadRaised /\ now' # now) =>
          /\ last_check_iso' = now'
          /\ \/ ret'.kind = "raised"
             \/ /\ ret'.kind = "running"
                /\ rows' = db_get_enabled_wallets_all_users(wallets)
                /\ DOMAIN task' = DOMAIN rows'
WriteRaises(w) ==
    /\ w \in DOMAIN task /\ w \in DOMAIN task'
    /\ task[w].pc = "fetch" /\ task'[w].raised

\* C18. When db_update_last_lamports raises for an account of a scan, the
\* row keeps the balance the scan loaded (the raising step changes no row
\* and no other task), the task of the account is over without an update
\* and without a notification, and the exception stays in the task: the
\* scan is never stuck, it ends when every task is over and returns as any
\* other scan does.  Every other account of the scan whose own write did
\* not raise is handled as in a scan without a failure: a first observation
\* is stored, a change is stored and notified once, an equal balance does
\* nothing.
C18_State ==
    /\ \A a \in DOMAIN task :
        task[a].raised =>
            /\ task[a].pc = "done" /\ task[a].fetched = "ok"
            /\ task[a].updates = << >> /\ task[a].sends = << >>
            /\ wallets[a].last_lamports = Prev(a)
    /\ \A b \in DOMAIN task :
        (task[b].fetched = "ok" /\ ~task[b].raised) =>
            /\ Prev(b) = None =>
                /\ task[b].updates = <<Cur(b)>> /\ task[b].sends = << >>
                /\ wallets[b].last_lamports = Cur(b)
            /\ (Prev(b) # None /\ Prev(b) # Cur(b)) =>
                /\ task[b].updates = <<Cur(b)>> /\ Len(task[b].sends) = 1
                /\ wallets[b].last_lamports = Cur(b)
            /\ Prev(b) = Cur(b) =>
                /\ task[b].updates = << >> /\ task[b].sends = << >>
    /\ instances > 0 =>
        \/ ScanComplete /\ ENABLED ScanFinish
        \/ \E w \in DOMAIN task : CanRun(w)
C18_Step ==
    /\ \A a \in DOMAIN task :
        WriteRaises(a) =>
            /\ wallets' = wallets
            /\ \A b \in DOMAIN task \ {a} : task'[b] = task[b]
    /\ instances' < instances => ret'.kind = "None"
C18_WriteFailureIsLocal == [] C18_State /\ [][C18_Step]_vars

\* Reached: the scan has every result; the write of a changed balance
\* raised for one account, whose row keeps the loaded balance, a first
\* observation was stored for another, and a third was stored and notified.
C18_Reached ==
    /\ ScanComplete
    /\ \E a, b, c \in DOMAIN task :
        /\ task[a].raised /\ Prev(a) # None /\ Cur(a) # Prev(a)
        /\ wallets[a].last_lamports = Prev(a)
        /\ ~task[b].raised /\ Prev(b) = None /\ wallets[b].last_lamports = Cur(b)
        /\ ~task[c].raised /\ task[c].delivered = "ok"
        /\ wallets[c].last_lamports = Cur(c) /\ Cur(c) # Prev(c)


\* C19. With the event loop running what can run, every fetch returning or
\* raising and every send returning or raising: a scan that has started
\* ends, whatever raised in it (fetches, balance writes, sends), and once
\* it has ended no instance is running, so that the next firing of the
\* trigger invokes the job again.
Scanning == instances > 0
C19_Terminates ==
    /\ Scanning ~> ~Scanning
    /\ [](~Scanning => JobMayStart)
    /\ [][(~Scanning /\ now' # now) => last_check_iso' = now']_vars

\* Reached: a scan has ended and returned, after the write of the first
\* account was not made (its fetch or its write raised) and the balance of
\* the second was replaced; the trigger can fire again.
C19_Reached ==
    /\ ~Scanning /\ ret.kind = "None" /\ now = 1
    /\ wallets[1].last_lamports = None
    /\ wallets[2].last_lamports # 0
    /\ ENABLED Tick


\* A step of the job: the trigger fires, or a task or gather() moves.  (The
\* handlers leave the locals of the job and the clock alone.)
ScanActs == scanVars' # scanVars \/ now' # now

\* C20. No step of the job inserts or deletes a row or changes the user_id,
\* name, address or enabled of a row; the job writes last_lamports only for
\* the rows it loaded, in the step in which their fetch returns.  The job
\* loads exactly the rows with enabled = 1: a row with enabled = 0 at that
\* moment stays in the table and has no task in that scan, and the tasks of
\* a scan are those of the rows loaded, from its start to its end.
C20_State == DOMAIN task = DOMAIN rows
C20_Step ==
    /\ ScanActs =>
          /\ DOMAIN wallets' = DOMAIN wallets
          /\ seq' = seq
          /\ \A w \in DOMAIN wallets :
              /\ OtherColumns(wallets'[w]) = OtherColumns(wallets[w])
              /\ BalanceWritten(w) => w \in DOMAIN task /\ FetchReturns(w)
    /\ JobInvoked =>
          /\ DOMAIN task' \subseteq {w \in DOMAIN wallets : wallets[w].enabled = 1}
          /\ ret'.kind = "running" =>
                DOMAIN task' = {w \in DOMAIN wallets : wallets[w].enabled = 1}
    /\ (Scanning /\ instances' > 0) => DOMAIN task' = DOMAIN task
C20_ScanFrame == [] C20_State /\ [][C20_Step]_vars

\* Reached: the scan has every result, it updated and notified one account,
\* and the other account, switched off, holds a balance and has no task.
C20_Reached ==
    /\ ScanComplete
    /\ \E w \in DOMAIN wallets : \E x \in DOMAIN task :
        /\ wallets[w].enabled = 0 /\ w \notin DOMAIN task
        /\ wallets[w].last_lamports # None
        /\ task[x].delivered = "ok"
        /\ touched = {}


\* A step in which an add_wallet_address whose INSERT was refused ends.
RejectedAddEnds == conv.pc = "fetch" /\ ~conv.ok /\ conv'.pc = "idle"

\* C21 as stated: an add_wallet_address for an address the user tracks
\* already leaves the table as it was, from the refused INSERT to the end of
\* the handler: no row is added, and the stored row keeps its name, its
\* enabled and its last_lamports (so that the next scan still compares with
\* the balance stored before the attempt).
C21_Step ==
    /\ (AddCalled /\ ~conv'.ok) => wallets' = wallets /\ seq' = seq
    /\ RejectedAddEnds => wallets' = wallets
C21_RejectedAddKeepsTable == [][C21_Step]_vars


\* The rows of the users other than Requester.
Foreign(W) == {w \in DOMAIN W : W[w].user_id # Requester}

\* C22. A toggle or a delete that Requester sends with the id of a row of
\* another user (or of no row) is answered "not found" and leaves that row
\* in the table with its enabled and its last_lamports; whatever Requester
\* sends, a step deletes or changes only a row of Requester, so the rows of
\* the other users are all there, with alerts on as at the start.
C22_State ==
    /\ \A w \in Foreign(wallets) :
        /\ toggle_reply(wallets, Requester, w) = "not found"
        /\ delete_reply(wallets, Requester, w) = "not found"
        /\ wallets[w].enabled = 1
    /\ \A w \in Ids \ DOMAIN wallets :
        /\ toggle_reply(wallets, Requester, w) = "not found"
        /\ delete_reply(wallets, Requester, w) = "not found"
C22_Step ==
    /\ \A w \in Foreign(wallets) :
        w \in DOMAIN wallets' /\ wallets'[w] = wallets[w]
    /\ \A w \in DOMAIN wallets :
        (w \notin DOMAIN wallets' \/ wallets'[w] # wallets[w]) =>
            /\ wallets[w].user_id = Requester
            /\ w \in DOMAIN wallets' =>
                  /\ wallets'[w].enabled # wallets[w].enabled
                  /\ wallets'[w].last_lamports = wallets[w].last_lamports
    /\ DOMAIN wallets' \subseteq DOMAIN wallets
C22_OwnerScoped == [] C22_State /\ [][C22_Step]_vars

\* Reached: Requester has switched off a row of its own, and the row of
\* another user is there with alerts on and its stored balance.
C22_Reached ==
    \E w \in DOMAIN wallets : \E x \in Foreign(wallets) :
        /\ wallets[w].user_id = Requester /\ wallets[w].enabled = 0
        /\ wallets[x].enabled = 1 /\ wallets[x].last_lamports # None


=============================================================================
